---- MODULE Spec2Model ----
(***************************************************************************)
(* Storage adapter of the photo-sharing application: the local filesystem  *)
(* backend (local_storage_service.py), container creation of the cloud     *)
(* backends (aws_storage_service.py, storage_service.py) and the boot-time *)
(* backend selection and the request handlers of app.py.                   *)
(***************************************************************************)
EXTENDS Integers, Sequences, FiniteSets, TLC

\* ------------------------------------------------------------------ bounds
MaxByte == 1          \* bytes are 0..MaxByte
MaxLen == 2           \* longest uploaded byte sequence
MaxClock == 3         \* last clock tick; an upload consumes a tick
ChunkSize == 1        \* bytes moved per read of shutil.copyfileobj
TicksPerSecond == 2   \* clock ticks within one second of strftime('%S')

Byte == 0..MaxByte
Content == UNION {[1..k -> Byte] : k \in 0..MaxLen}

\* object names: what the callers of the storage classes pass as filename
Names == {"a.png", "b.jpg", "notes"}

Min(a, b) == IF a <= b THEN a ELSE b

\* ------------------------------------------------------------------- state
VARIABLES
    dirExists,          \* os.path.exists(self.full_path)
    files,              \* regular files of full_path: name -> [data, ctime]
    clock,              \* filesystem time in ticks
    ret,                \* outcome of the latest call
    expect,             \* per name, the last call that acted on it and its bytes
    fresh,              \* every call so far was a successful upload of a new name
    STORAGE_TYPE, storage, storage_type_name,   \* module globals of app.py
    pc,                 \* where the module-level code of app.py stands
    log,                \* what app.py printed while booting
    env,                \* os.environ['STORAGE_TYPE'], lower-cased
    failed,             \* the backends whose initialisation raised
    threads,            \* per request thread, the storage call it is inside
    bucket,             \* the S3 bucket: [exists, policy, block, objects]
    container           \* the Azure container: [exists, blobs]

localVars == <<dirExists, files, clock, expect, fresh>>
appVars == <<STORAGE_TYPE, storage, storage_type_name, pc, log, env, failed, threads>>
cloudVars == <<bucket, container>>
vars == <<dirExists, files, clock, ret, expect, fresh,
          STORAGE_TYPE, storage, storage_type_name, pc, log, env, failed,
          threads, bucket, container>>

\* ------------------------------------------------- LocalFileStorage fields
storage_path == "uploads"
container_name == "photos"
full_path == storage_path \o "/" \o container_name

\* f"/{self.storage_path}/{self.container_name}/{filename}"
get_file_url(filename) == "/" \o storage_path \o "/" \o container_name \o "/" \o filename

\* a readable stream (io.BytesIO, werkzeug FileStorage) or raw bytes
FileStreams == [kind : {"stream", "bytes"}, data : Content]

\* one payload of each length, its bytes changing from position to position
Payloads == {[i \in 1..k |-> i % (MaxByte + 1)] : k \in 0..MaxLen}

\* -------------------------------------------------------- file primitives
\* open(file_path, 'wb'): the file is created or truncated to length 0
open_wb_keep(old) == old
open_wb(old) == <<>>

\* f.write(buf) at offset pos of a file holding data
write(data, pos, buf) ==
    SubSeq(data, 1, pos) \o buf \o SubSeq(data, pos + Len(buf) + 1, Len(data))

\* shutil.copyfileobj(fsrc, fdst): read ChunkSize bytes, write them, until
\* a read returns nothing
copyfileobj_once(src, data, pos) ==
    write(data, pos, SubSeq(src, 1, Min(ChunkSize, Len(src))))

RECURSIVE copyfileobj(_, _, _)
copyfileobj(src, data, pos) ==
    IF src = <<>> THEN data
    ELSE LET k == Min(ChunkSize, Len(src))
         IN copyfileobj(SubSeq(src, k + 1, Len(src)),
                        write(data, pos, SubSeq(src, 1, k)), pos + k)

\* body of the with-block of upload_file: what the file holds on close
save_file(old, file_stream) ==
    LET f == open_wb(old)
    IN IF file_stream.kind = "stream"          \* hasattr(file_stream, 'read')
       THEN copyfileobj(file_stream.data, f, 0)
       ELSE write(f, 0, file_stream.data)

\* os.path.exists(os.path.join(self.full_path, filename))
path_exists(fs, filename) == filename \in DOMAIN fs

\* file_exists(filename)
file_exists_dir(filename) == dirExists
file_exists(filename) == path_exists(files, filename)

\* os.remove(file_path)
os_remove_none(fs, filename) == fs
os_remove(fs, filename) == [m \in (DOMAIN fs) \ {filename} |-> fs[m]]

\* the file system after the file of filename is closed with data, at time t
os_store(fs, filename, data, t) ==
    [m \in (DOMAIN fs) \cup {filename} |->
        IF m = filename THEN [data |-> data, ctime |-> t] ELSE fs[m]]

\* mimetypes.guess_type(filename)[0]; "None" when the extension is unmapped
guess_type(filename) ==
    CASE filename = "a.png" -> "image/png"
      [] filename = "b.jpg" -> "image/jpeg"
      [] OTHER -> "None"

\* datetime.fromtimestamp(st_ctime).strftime('%Y-%m-%d %H:%M:%S'): the
\* timestamp cut to whole seconds (fixed-width text, ordered as the number)
strftime(ctime) == ctime \div TicksPerSecond

\* the dictionary list_files builds for one directory entry
file_info(fs, filename) ==
    [name |-> filename,
     url |-> "/" \o storage_path \o "/" \o container_name \o "/" \o filename,
     size |-> Len(fs[filename].data),
     created |-> strftime(fs[filename].ctime),
     content_type |-> IF guess_type(filename) = "None"
                      THEN "application/octet-stream"
                      ELSE guess_type(filename)]

\* the same sort without reverse=True
RECURSIVE sort_created_asc(_)
sort_created_asc(file_list) ==
    IF file_list = <<>> THEN <<>>
    ELSE LET x == file_list[Len(file_list)]
             rest == sort_created_asc(SubSeq(file_list, 1, Len(file_list) - 1))
             keep == {i \in 1..Len(rest) : rest[i].created <= x.created}
             k == Cardinality(keep)
         IN SubSeq(rest, 1, k) \o <<x>> \o SubSeq(rest, k + 1, Len(rest))

\* list.sort(key=lambda x: x['created'], reverse=True): stable, so entries
\* with equal keys keep the order they were appended in
RECURSIVE sort_created_reverse(_)
sort_created_reverse(file_list) ==
    IF file_list = <<>> THEN <<>>
    ELSE LET x == file_list[Len(file_list)]
             rest == sort_created_reverse(SubSeq(file_list, 1, Len(file_list) - 1))
             keep == {i \in 1..Len(rest) : rest[i].created >= x.created}
             k == Cardinality(keep)
         IN SubSeq(rest, 1, k) \o <<x>> \o SubSeq(rest, k + 1, Len(rest))

\* os.listdir(self.full_path): the names in an order the OS chooses
listdir(fs) ==
    {order \in [1..Cardinality(DOMAIN fs) -> DOMAIN fs] :
        \A i, j \in DOMAIN order : i # j => order[i] # order[j]}

\* list_files() when os.listdir returned order
list_files_first(exists, fs, order) ==
    IF ~exists \/ order = <<>> THEN <<>> ELSE <<file_info(fs, order[1])>>

list_files(exists, fs, order) ==
    IF ~exists THEN <<>>
    ELSE sort_created_reverse([i \in DOMAIN order |-> file_info(fs, order[i])])

\* every listing list_files() can return in the current state
Listings == {list_files(dirExists, files, order) : order \in listdir(files)}

\* --------------------------------------------------------- call outcomes
NoFiles == [m \in {} |-> 0]
NoPre == [last |-> "none", data |-> <<>>, via |-> "", at |-> 0]

\* what a call handed back: a value, or the exception it raised; pre is what
\* the callers had last done to the name (or container) before this call
Return(op, name, val, pre) ==
    [op |-> op, name |-> name, val |-> val, exc |-> "none", pre |-> pre]
Raise(op, name, exc, pre) ==
    [op |-> op, name |-> name, val |-> FALSE, exc |-> exc, pre |-> pre]

\* download_file(filename)
download_file(fs, filename) ==
    IF ~path_exists(fs, filename)
    THEN Raise("download_file", filename, "FileNotFoundError", NoPre)
    ELSE Return("download_file", filename, fs[filename].data, NoPre)

\* ------------------------------------------- LocalFileStorage operations
\* create_container(): os.makedirs(self.full_path, exist_ok=True)
create_container_local(ok) ==
    /\ ok \/ ~dirExists                   \* makedirs can fail only when it creates
    /\ dirExists' = (dirExists \/ ok)
    /\ UNCHANGED <<files, clock, expect>>

\* the files after upload_file(file_stream, filename) returned at time t
files_after_upload(fs, filename, file_stream, t) ==
    LET old == IF path_exists(fs, filename) THEN fs[filename].data ELSE <<>>
    IN os_store(fs, filename, save_file(old, file_stream), t)

\* delete_file that clears the directory: shutil.rmtree in place of os.remove
files_after_delete_rmtree(fs, filename) ==
    IF ~path_exists(fs, filename) THEN fs ELSE NoFiles

\* the files after delete_file(filename) returned
files_after_delete(fs, filename) ==
    IF ~path_exists(fs, filename) THEN fs ELSE os_remove(fs, filename)

\* upload_file without its call of self.create_container()
upload_file_local_nomkdir(filename, file_stream) ==
    /\ clock < MaxClock
    /\ dirExists' = dirExists
    /\ files' = files_after_upload(files, filename, file_stream, clock)
    /\ clock' = clock + 1
    /\ expect' = [expect EXCEPT ![filename] =
                     [last |-> "upload", data |-> file_stream.data,
                      via |-> file_stream.kind, at |-> clock]]

\* upload_file(file_stream, filename) that returns the URL
upload_file_local(filename, file_stream) ==
    /\ clock < MaxClock
    /\ dirExists' = TRUE                      \* self.create_container()
    /\ files' = files_after_upload(files, filename, file_stream, clock)
    /\ clock' = clock + 1
    /\ expect' = [expect EXCEPT ![filename] =
                     [last |-> "upload", data |-> file_stream.data,
                      via |-> file_stream.kind, at |-> clock]]

\* upload_file that raises because makedirs or open fails: no byte moves
upload_file_local_raises(filename, at) ==
    /\ \/ /\ at = "makedirs"
          /\ ~dirExists
          /\ dirExists' = dirExists
       \/ /\ at = "open"
          /\ dirExists' = TRUE
    /\ UNCHANGED <<files, clock, expect>>

\* upload_file that raises while copying: the file was truncated by open
\* and holds the k bytes that were written before the error
upload_file_local_torn(filename, file_stream, k) ==
    /\ clock < MaxClock
    /\ k < Len(file_stream.data)
    /\ dirExists' = TRUE
    /\ LET old == IF path_exists(files, filename) THEN files[filename].data ELSE <<>>
           part == [kind |-> file_stream.kind, data |-> SubSeq(file_stream.data, 1, k)]
       IN files' = os_store(files, filename, save_file(old, part), clock)
    /\ clock' = clock + 1
    /\ expect' = [expect EXCEPT ![filename] = [NoPre EXCEPT !.last = "torn"]]

\* delete_file(filename) that returns: True when the file was there
delete_file_local(filename) ==
    /\ files' = files_after_delete(files, filename)
    /\ expect' = [expect EXCEPT ![filename] = [NoPre EXCEPT !.last = "delete"]]
    /\ UNCHANGED <<dirExists, clock>>

LocalCreateContainer ==
    /\ \E ok \in BOOLEAN :
          /\ create_container_local(ok)
          /\ ret' = IF ok THEN Return("create_container", "local", TRUE,
                                      [existed |-> dirExists, store |-> <<dirExists, files>>])
                    ELSE Raise("create_container", "local", "OSError",
                               [existed |-> dirExists, store |-> <<dirExists, files>>])
    /\ UNCHANGED <<fresh, appVars, cloudVars>>

LocalUpload(filename, file_stream) ==
    /\ upload_file_local(filename, file_stream)
    /\ ret' = Return("upload_file", filename, get_file_url(filename), expect[filename])
    /\ fresh' = (fresh /\ expect[filename].last = "none")
    /\ UNCHANGED <<appVars, cloudVars>>

LocalUploadRaises(filename, at) ==
    /\ upload_file_local_raises(filename, at)
    /\ ret' = Raise("upload_file", filename, "OSError", expect[filename])
    /\ fresh' = FALSE
    /\ UNCHANGED <<appVars, cloudVars>>

LocalUploadTorn(filename, file_stream, k) ==
    /\ upload_file_local_torn(filename, file_stream, k)
    /\ ret' = Raise("upload_file", filename, "OSError", expect[filename])
    /\ fresh' = FALSE
    /\ UNCHANGED <<appVars, cloudVars>>

LocalDownload(filename) ==
    /\ ret' = download_file(files, filename)
    /\ UNCHANGED <<localVars, appVars, cloudVars>>

LocalDelete(filename) ==
    /\ delete_file_local(filename)
    /\ ret' = Return("delete_file", filename, path_exists(files, filename), expect[filename])
    /\ fresh' = FALSE
    /\ UNCHANGED <<appVars, cloudVars>>

\* delete_file(filename) whose os.remove raises
LocalDeleteRaises(filename) ==
    /\ path_exists(files, filename)
    /\ ret' = Raise("delete_file", filename, "OSError", expect[filename])
    /\ fresh' = FALSE
    /\ UNCHANGED <<dirExists, files, clock, expect, appVars, cloudVars>>

\* list_files()
LocalList ==
    /\ \E order \in listdir(files) :
          ret' = Return("list_files", "", list_files(dirExists, files, order), NoPre)
    /\ UNCHANGED <<localVars, appVars, cloudVars>>

LocalExists(filename) ==
    /\ ret' = Return("file_exists", filename, file_exists(filename), NoPre)
    /\ UNCHANGED <<localVars, appVars, cloudVars>>

LocalGetUrl(filename) ==
    /\ ret' = Return("get_file_url", filename, get_file_url(filename), NoPre)
    /\ UNCHANGED <<localVars, appVars, cloudVars>>

\* time passes
Tick ==
    /\ clock < MaxClock
    /\ clock' = clock + 1
    /\ UNCHANGED <<dirExists, files, ret, expect, fresh, appVars, cloudVars>>

FailPoints == {"makedirs", "open"}

\* what the callers in the repository pass: a stream positioned at its start
PayloadStreams == [kind : {"stream"}, data : Payloads]

\* a client (test_local_storage.py, test_suite.py, the __main__ block)
\* drives one LocalFileStorage('uploads', 'photos') object over several names
LocalNext ==
    \/ LocalCreateContainer
    \/ \E n \in Names, s \in PayloadStreams : LocalUpload(n, s)
    \/ \E n \in Names, at \in FailPoints : LocalUploadRaises(n, at)
    \/ \E n \in Names : LocalDownload(n)
    \/ \E n \in Names : LocalDelete(n)
    \/ \E n \in Names : LocalDeleteRaises(n)
    \/ LocalList
    \/ \E n \in Names : LocalExists(n)
    \/ \E n \in Names : LocalGetUrl(n)
    \/ Tick

\* the same object driven on one name with every byte sequence, as a stream
\* or as bytes, uploads that break off part-way included
OneName == {"a.png"}

BytesNext ==
    \/ LocalCreateContainer
    \/ \E n \in OneName, s \in FileStreams : LocalUpload(n, s)
    \/ \E n \in OneName, at \in FailPoints : LocalUploadRaises(n, at)
    \/ \E n \in OneName, s \in FileStreams, k \in 0..(MaxLen - 1) : LocalUploadTorn(n, s, k)
    \/ \E n \in OneName : LocalDownload(n)
    \/ \E n \in OneName : LocalDelete(n)
    \/ \E n \in OneName : LocalDeleteRaises(n)

\* the module state of app.py before the bootstrap has run
\* app.run(): the development server answers each request on a thread of
\* its own
ThreadIds == {1, 2}

\* a thread that is inside no storage call
Idle ==
    [op |-> "idle", name |-> "", at |-> "idle", stream |-> <<>>, pos |-> 0,
     orphan |-> FALSE, seen |-> <<>>, infos |-> <<>>, val |-> FALSE,
     exc |-> "none", existed |-> FALSE]

AppIdle ==
    /\ STORAGE_TYPE = "local"
    /\ env = "local"
    /\ storage = "None"
    /\ storage_type_name = "Local Storage"
    /\ pc = "boot"
    /\ log = <<>>
    /\ failed = {}
    /\ threads = [t \in ThreadIds |-> Idle]

NoBucket == [exists |-> FALSE, policy |-> FALSE, block |-> FALSE, objects |-> NoFiles]
NoContainer == [exists |-> FALSE, blobs |-> NoFiles]

CloudIdle ==
    /\ bucket = NoBucket
    /\ container = NoContainer

\* LocalFileStorage.__init__ touches no file: the directory may or may not
\* be there yet
LocalInit ==
    /\ dirExists \in BOOLEAN
    /\ files = NoFiles
    /\ clock = 0
    /\ ret = Return("__init__", "", TRUE, NoPre)
    /\ expect = [n \in Names |-> NoPre]
    /\ fresh = TRUE

Init == LocalInit /\ AppIdle /\ CloudIdle

Next == LocalNext

Spec == Init /\ [][Next]_vars

SpecBytes == Init /\ [][BytesNext]_vars

\* ------------------------------------ LocalFileStorage calls, step by step
\* what a thread of the server leaves alone while it is inside a storage call
threadFrame ==
    <<clock, ret, expect, fresh, STORAGE_TYPE, storage, storage_type_name, pc,
      log, env, failed, bucket, container>>

\* os.pwrite-like effect of f.write(buf) by a writer whose own file offset
\* is pos: a gap left by another writer's truncation reads as zero bytes
write_at(data, pos, buf) ==
    LET n == Len(data)
        padded == IF pos > n THEN data \o [i \in 1..(pos - n) |-> 0] ELSE data
    IN write(padded, pos, buf)

\* two uploads whose bytes differ at every position
RaceStreams == {[i \in 1..MaxLen |-> 0], [i \in 1..MaxLen |-> MaxByte]}

\* a thread ends its call with a value or with the exception it re-raises
Returned(th, val) == [th EXCEPT !.at = "done", !.val = val]
Raised(th, exc) == [th EXCEPT !.at = "done", !.exc = exc]

\* upload_file, lines 62-63: self.create_container()
upload_file_begin(t, filename, file_stream) ==
    /\ threads[t].at = "idle"
    /\ dirExists' = TRUE
    /\ threads' = [threads EXCEPT ![t] =
                      [Idle EXCEPT !.op = "upload_file", !.name = filename,
                                   !.at = "open", !.stream = file_stream]]
    /\ UNCHANGED <<files, threadFrame>>

\* upload_file, line 70: open(file_path, 'wb') creates or truncates the file;
\* the thread's own offset starts at 0
upload_file_open(t) ==
    /\ threads[t].op = "upload_file"
    /\ threads[t].at = "open"
    /\ LET n == threads[t].name
           old == IF path_exists(files, n) THEN files[n].data ELSE <<>>
       IN files' = os_store(files, n, open_wb(old), clock)
    /\ threads' = [threads EXCEPT ![t].at = "copy", ![t].pos = 0]
    /\ UNCHANGED <<dirExists, threadFrame>>

\* upload_file, line 73: one pass of the loop of shutil.copyfileobj, ChunkSize
\* bytes written at the thread's own offset; a file that was removed
\* meanwhile takes the bytes without showing them under its name
upload_file_copy(t) ==
    /\ threads[t].op = "upload_file"
    /\ threads[t].at = "copy"
    /\ threads[t].pos < Len(threads[t].stream)
    /\ LET th == threads[t]
           k == Min(ChunkSize, Len(th.stream) - th.pos)
           buf == SubSeq(th.stream, th.pos + 1, th.pos + k)
       IN /\ files' = IF th.orphan THEN files
                      ELSE os_store(files, th.name,
                                    write_at(files[th.name].data, th.pos, buf),
                                    files[th.name].ctime)
          /\ threads' = [threads EXCEPT ![t].pos = th.pos + k]
    /\ UNCHANGED <<dirExists, threadFrame>>

\* upload_file, lines 78-81: the stream is exhausted, the URL is returned
upload_file_return(t) ==
    /\ threads[t].op = "upload_file"
    /\ threads[t].at = "copy"
    /\ threads[t].pos = Len(threads[t].stream)
    /\ threads' = [threads EXCEPT ![t] =
                      Returned(threads[t], get_file_url(threads[t].name))]
    /\ UNCHANGED <<dirExists, files, threadFrame>>

\* delete_file, lines 124-128: the os.path.exists test
delete_file_check(t, filename) ==
    /\ threads[t].at = "idle"
    /\ LET th == [Idle EXCEPT !.op = "delete_file", !.name = filename,
                              !.existed = path_exists(files, filename)]
       IN threads' = [threads EXCEPT ![t] =
                         IF path_exists(files, filename)
                         THEN [th EXCEPT !.at = "remove"]
                         ELSE Returned(th, FALSE)]
    /\ UNCHANGED <<dirExists, files, threadFrame>>

\* delete_file, lines 130-136: os.remove raises FileNotFoundError for a file
\* that is gone, and the except block re-raises it
delete_file_remove(t) ==
    /\ threads[t].op = "delete_file"
    /\ threads[t].at = "remove"
    /\ LET n == threads[t].name
       IN IF path_exists(files, n)
          THEN /\ files' = os_remove(files, n)
               /\ threads' = [u \in ThreadIds |->
                                IF u = t THEN Returned(threads[t], TRUE)
                                ELSE IF threads[u].op = "upload_file"
                                        /\ threads[u].at = "copy"
                                        /\ threads[u].name = n
                                     THEN [threads[u] EXCEPT !.orphan = TRUE]
                                     ELSE threads[u]]
          ELSE /\ files' = files
               /\ threads' = [threads EXCEPT ![t] =
                                 Raised(threads[t], "FileNotFoundError")]
    /\ UNCHANGED <<dirExists, threadFrame>>

\* list_files, lines 146-152: the directory test and os.listdir
list_files_begin(t) ==
    /\ threads[t].at = "idle"
    /\ LET th == [Idle EXCEPT !.op = "list_files"]
       IN IF ~dirExists
          THEN threads' = [threads EXCEPT ![t] = Returned(th, <<>>)]
          ELSE \E order \in listdir(files) :
                  threads' = [threads EXCEPT ![t] =
                                 [th EXCEPT !.at = "stat", !.seen = order]]
    /\ UNCHANGED <<dirExists, files, threadFrame>>

\* list_files, lines 152-175: one pass of the loop; os.path.isdir is False
\* for a name that is gone and os.stat then raises FileNotFoundError
list_files_stat(t) ==
    /\ threads[t].op = "list_files"
    /\ threads[t].at = "stat"
    /\ threads[t].seen # <<>>
    /\ LET th == threads[t]
           n == Head(th.seen)
       IN threads' = [threads EXCEPT ![t] =
                         IF path_exists(files, n)
                         THEN [th EXCEPT !.seen = Tail(th.seen),
                                         !.infos = Append(th.infos, file_info(files, n))]
                         ELSE Raised(th, "FileNotFoundError")]
    /\ UNCHANGED <<dirExists, files, threadFrame>>

\* list_files, lines 177-179: sort and return
list_files_return(t) ==
    /\ threads[t].op = "list_files"
    /\ threads[t].at = "stat"
    /\ threads[t].seen = <<>>
    /\ threads' = [threads EXCEPT ![t] =
                      Returned(threads[t], sort_created_reverse(threads[t].infos))]
    /\ UNCHANGED <<dirExists, files, threadFrame>>

\* the requests that were in flight together have all been answered
join ==
    /\ \A t \in ThreadIds : threads[t].at \in {"idle", "done"}
    /\ \E t \in ThreadIds : threads[t].at = "done"
    /\ threads' = [t \in ThreadIds |-> Idle]
    /\ UNCHANGED <<dirExists, files, threadFrame>>

ThreadsNext ==
    \/ \E t \in ThreadIds, s \in RaceStreams : upload_file_begin(t, "a.png", s)
    \/ \E t \in ThreadIds : upload_file_open(t)
    \/ \E t \in ThreadIds : upload_file_copy(t)
    \/ \E t \in ThreadIds : upload_file_return(t)
    \/ \E t \in ThreadIds : delete_file_check(t, "a.png")
    \/ \E t \in ThreadIds : delete_file_remove(t)
    \/ \E t \in ThreadIds : list_files_begin(t)
    \/ \E t \in ThreadIds : list_files_stat(t)
    \/ \E t \in ThreadIds : list_files_return(t)
    \/ join

SpecThreads == Init /\ [][ThreadsNext]_vars

TwoNames == {"a.png", "b.jpg"}

\* the directory tree is removed behind the object's back (a cleanup, a
\* redeploy): the files go with it
RemoveTree ==
    /\ dirExists
    /\ dirExists' = FALSE
    /\ files' = NoFiles
    /\ expect' = [n \in Names |-> [NoPre EXCEPT !.last = "rmtree"]]
    /\ ret' = Return("rmtree", "", TRUE, NoPre)
    /\ fresh' = FALSE
    /\ UNCHANGED <<clock, appVars, cloudVars>>

\* a caller that never calls create_container itself
LazyNext ==
    \/ \E n \in TwoNames, s \in PayloadStreams : LocalUpload(n, s)
    \/ \E n \in TwoNames, at \in FailPoints : LocalUploadRaises(n, at)
    \/ \E n \in TwoNames : LocalDownload(n)
    \/ \E n \in TwoNames : LocalExists(n)
    \/ RemoveTree

SpecLazy == Init /\ [][LazyNext]_vars

\* two callers, each working on a name of its own
PairsNext ==
    \/ LocalCreateContainer
    \/ \E n \in TwoNames, s \in PayloadStreams : LocalUpload(n, s)
    \/ \E n \in TwoNames : LocalDelete(n)
    \/ \E n \in TwoNames : LocalDownload(n)
    \/ \E n \in TwoNames : LocalExists(n)

SpecPairs == Init /\ [][PairsNext]_vars

\* ------------------------------------------------- AWSS3Storage (boto3)
bucket_name == "photos"
region_name == "us-east-1"

\* f"https://{self.bucket_name}.s3.{self.region_name}.amazonaws.com/{filename}"
aws_get_file_url(filename) ==
    "https://" \o bucket_name \o ".s3." \o region_name \o ".amazonaws.com/" \o filename

\* the SDK call of create_container that fails, if any; head_bucket failing
\* here means a ClientError whose code is not 404
AwsFaults == {"none", "head_bucket", "create_bucket", "put_bucket_policy",
              "put_public_access_block"}

\* the bucket policy passed to put_bucket_policy
bucket_policy ==
    [Sid |-> "PublicReadGetObject", Effect |-> "Allow", Principal |-> "*",
     Action |-> "s3:GetObject",
     Resource |-> "arn:aws:s3:::" \o bucket_name \o "/*"]

\* the PublicAccessBlockConfiguration passed to put_public_access_block
PublicAccessBlockConfiguration ==
    [BlockPublicAcls |-> TRUE, IgnorePublicAcls |-> TRUE,
     BlockPublicPolicy |-> FALSE, RestrictPublicBuckets |-> FALSE]

\* one call of the S3 client and its keyword arguments
S3Call(call, arg) == [call |-> call, Bucket |-> bucket_name, arg |-> arg]

head_bucket == S3Call("head_bucket", "")
create_bucket == S3Call("create_bucket", "")
put_bucket_policy == S3Call("put_bucket_policy", bucket_policy)
put_public_access_block ==
    S3Call("put_public_access_block", PublicAccessBlockConfiguration)

\* create_container() that sets the access block before the policy
aws_create_container_blockfirst(b, fault) ==
    IF fault = "head_bucket"
    THEN [bucket |-> b, exc |-> "ClientError", calls |-> <<head_bucket>>]
    ELSE IF b.exists
    THEN [bucket |-> b, exc |-> "none", calls |-> <<head_bucket>>]
    ELSE IF fault = "create_bucket"
    THEN [bucket |-> b, exc |-> "ClientError",
          calls |-> <<head_bucket, create_bucket>>]
    ELSE IF fault = "put_public_access_block"
    THEN [bucket |-> [b EXCEPT !.exists = TRUE], exc |-> "ClientError",
          calls |-> <<head_bucket, create_bucket, put_public_access_block>>]
    ELSE IF fault = "put_bucket_policy"
    THEN [bucket |-> [b EXCEPT !.exists = TRUE, !.block = TRUE],
          exc |-> "ClientError",
          calls |-> <<head_bucket, create_bucket, put_public_access_block,
                      put_bucket_policy>>]
    ELSE [bucket |-> [b EXCEPT !.exists = TRUE, !.policy = TRUE, !.block = TRUE],
          exc |-> "none",
          calls |-> <<head_bucket, create_bucket, put_public_access_block,
                      put_bucket_policy>>]

\* create_container(): the bucket afterwards, the exception raised and the
\* calls issued to the S3 client, in order (the last one is the one that
\* failed when an exception is raised)
aws_create_container(b, fault) ==
    IF fault = "head_bucket"
    THEN [bucket |-> b, exc |-> "ClientError", calls |-> <<head_bucket>>]
    ELSE IF b.exists
    THEN [bucket |-> b, exc |-> "none", calls |-> <<head_bucket>>]
    ELSE IF fault = "create_bucket"
    THEN [bucket |-> b, exc |-> "ClientError",
          calls |-> <<head_bucket, create_bucket>>]
    ELSE IF fault = "put_bucket_policy"
    THEN [bucket |-> [b EXCEPT !.exists = TRUE], exc |-> "ClientError",
          calls |-> <<head_bucket, create_bucket, put_bucket_policy>>]
    ELSE IF fault = "put_public_access_block"
    THEN [bucket |-> [b EXCEPT !.exists = TRUE, !.policy = TRUE],
          exc |-> "ClientError",
          calls |-> <<head_bucket, create_bucket, put_bucket_policy,
                      put_public_access_block>>]
    ELSE [bucket |-> [b EXCEPT !.exists = TRUE, !.policy = TRUE, !.block = TRUE],
          exc |-> "none",
          calls |-> <<head_bucket, create_bucket, put_bucket_policy,
                      put_public_access_block>>]

\* an object store after filename is put with the bytes of the stream
put_object(objs, filename, file_stream) ==
    [m \in (DOMAIN objs) \cup {filename} |->
        IF m = filename
        THEN [data |-> file_stream.data,
              content_type |-> IF guess_type(filename) = "None"
                               THEN "application/octet-stream"
                               ELSE guess_type(filename)]
        ELSE objs[m]]

\* upload_file(file_stream, filename): seek(0), then upload_fileobj
aws_upload_file(b, filename, file_stream, fault) ==
    IF fault \/ ~b.exists THEN [bucket |-> b, raised |-> TRUE]
    ELSE [bucket |-> [b EXCEPT !.objects = put_object(b.objects, filename, file_stream)],
          raised |-> FALSE]

\* delete_file(filename): delete_object, then return True
aws_delete_file(b, filename, fault) ==
    IF fault \/ ~b.exists THEN [bucket |-> b, raised |-> TRUE, val |-> FALSE]
    ELSE [bucket |-> [b EXCEPT !.objects = os_remove(b.objects, filename)],
          raised |-> FALSE, val |-> TRUE]

\* ------------------------------------------ AzureBlobStorage (azure SDK)
\* create_container(): ResourceExistsError is success, anything else raises
azure_create_container_strict(c, fault) ==
    IF fault THEN [container |-> c, exc |-> "HttpResponseError"]
    ELSE IF c.exists THEN [container |-> c, exc |-> "ResourceExistsError"]
    ELSE [container |-> [c EXCEPT !.exists = TRUE], exc |-> "none"]

azure_create_container(c, fault) ==
    IF fault THEN [container |-> c, exc |-> "HttpResponseError"]
    ELSE [container |-> [c EXCEPT !.exists = TRUE], exc |-> "none"]

\* upload_file(file_stream, filename): upload_blob(overwrite=True)
azure_upload_file(c, filename, file_stream, fault) ==
    IF fault \/ ~c.exists THEN [container |-> c, raised |-> TRUE]
    ELSE [container |-> [c EXCEPT !.blobs = put_object(c.blobs, filename, file_stream)],
          raised |-> FALSE]

\* delete_file without the except ResourceNotFoundError block's return False
azure_delete_file_always(c, filename, fault) ==
    IF fault THEN [container |-> c, raised |-> TRUE, val |-> FALSE]
    ELSE [container |-> [c EXCEPT !.blobs = os_remove(c.blobs, filename)],
          raised |-> FALSE, val |-> TRUE]

\* delete_file(filename): False on ResourceNotFoundError
azure_delete_file(c, filename, fault) ==
    IF fault THEN [container |-> c, raised |-> TRUE, val |-> FALSE]
    ELSE IF ~c.exists \/ filename \notin DOMAIN c.blobs
         THEN [container |-> c, raised |-> FALSE, val |-> FALSE]
    ELSE [container |-> [c EXCEPT !.blobs = os_remove(c.blobs, filename)],
          raised |-> FALSE, val |-> TRUE]

\* blob_client.url quotes the blob name: urllib.parse.quote(name, safe='~/')
quote(filename) ==
    CASE filename = "my photo.png" -> "my%20photo.png"
      [] OTHER -> filename

\* container_client.url of the container 'photos'
azure_container_url == "https://account.blob.core.windows.net/" \o container_name

\* blob_client.url, what upload_file and get_file_url return
azure_get_file_url(filename) == azure_container_url \o "/" \o quote(filename)

\* the errors a request to the service can end in, besides not-found:
\* botocore raises ClientError for an error response (403, 500) and
\* EndpointConnectionError when the service cannot be reached
AwsErrors == {"none", "ClientError", "EndpointConnectionError"}
AzureErrors == {"none", "HttpResponseError", "ServiceRequestError"}

\* s3_client.head_object: a 404 is a ClientError too
head_object(b, filename, fault) ==
    IF fault # "none" THEN fault
    ELSE IF ~b.exists \/ filename \notin DOMAIN b.objects THEN "ClientError"
    ELSE "none"

\* file_exists with an except ClientError block that passes on what is not a 404
aws_file_exists_reraises(b, filename, fault) ==
    IF head_object(b, filename, fault) = "none" THEN [val |-> TRUE, exc |-> "none"]
    ELSE IF fault = "none" THEN [val |-> FALSE, exc |-> "none"]
    ELSE [val |-> FALSE, exc |-> fault]

\* AWSS3Storage.file_exists: except ClientError and except Exception return False
aws_file_exists(b, filename, fault) ==
    IF head_object(b, filename, fault) = "none" THEN [val |-> TRUE, exc |-> "none"]
    ELSE [val |-> FALSE, exc |-> "none"]

\* file_exists with an except block that raises the exception again
azure_file_exists_reraises(c, filename, fault) ==
    IF fault # "none" THEN [val |-> FALSE, exc |-> fault]
    ELSE [val |-> c.exists /\ filename \in DOMAIN c.blobs, exc |-> "none"]

\* AzureBlobStorage.file_exists: blob_client.exists(), False on any exception
azure_file_exists(c, filename, fault) ==
    IF fault # "none" THEN [val |-> FALSE, exc |-> "none"]
    ELSE [val |-> c.exists /\ filename \in DOMAIN c.blobs, exc |-> "none"]

\* download_file that hands back no bytes when the key is missing
aws_download_file_empty(b, filename, fault) ==
    IF fault # "none" THEN [val |-> <<>>, exc |-> fault]
    ELSE IF ~b.exists \/ filename \notin DOMAIN b.objects
         THEN [val |-> <<>>, exc |-> "none"]
    ELSE [val |-> b.objects[filename].data, exc |-> "none"]

\* AWSS3Storage.download_file: get_object, every exception is raised again
aws_download_file(b, filename, fault) ==
    IF fault # "none" THEN [val |-> <<>>, exc |-> fault]
    ELSE IF ~b.exists THEN [val |-> <<>>, exc |-> "NoSuchBucket"]
    ELSE IF filename \notin DOMAIN b.objects THEN [val |-> <<>>, exc |-> "NoSuchKey"]
    ELSE [val |-> b.objects[filename].data, exc |-> "none"]

\* AzureBlobStorage.download_file: download_blob, every exception is raised again
azure_download_file(c, filename, fault) ==
    IF fault # "none" THEN [val |-> <<>>, exc |-> fault]
    ELSE IF ~c.exists \/ filename \notin DOMAIN c.blobs
         THEN [val |-> <<>>, exc |-> "ResourceNotFoundError"]
    ELSE [val |-> c.blobs[filename].data, exc |-> "none"]

\* the keys of a cloud store in the order the service lists them (by name)
KeysInOrder == <<"a.png", "b.jpg", "my photo.png", "notes">>
key_order(keys) == SelectSeq(KeysInOrder, LAMBDA k : k \in keys)

\* AWSS3Storage.list_files(): one entry per key of list_objects_v2
aws_list_files(b) ==
    [i \in 1..Cardinality(DOMAIN b.objects) |->
        LET key == key_order(DOMAIN b.objects)[i]
        IN [name |-> key,
            url |-> aws_get_file_url(key),
            size |-> Len(b.objects[key].data),
            content_type |-> "image/*"]]

\* AzureBlobStorage.list_files(): one entry per blob of list_blobs
azure_list_files(c) ==
    [i \in 1..Cardinality(DOMAIN c.blobs) |->
        LET key == key_order(DOMAIN c.blobs)[i]
        IN [name |-> key,
            url |-> azure_container_url \o "/" \o key,
            size |-> Len(c.blobs[key].data),
            content_type |-> c.blobs[key].content_type]]

\* AWSS3Storage.list_files as called: list_objects_v2 raises for a bucket
\* that does not exist, and every exception is raised again
aws_list_files_call(b, fault) ==
    IF fault # "none" THEN [val |-> <<>>, exc |-> fault]
    ELSE IF ~b.exists THEN [val |-> <<>>, exc |-> "NoSuchBucket"]
    ELSE [val |-> aws_list_files(b), exc |-> "none"]

\* AzureBlobStorage.list_files as called: list_blobs raises for a container
\* that does not exist, and every exception is raised again
azure_list_files_call(c, fault) ==
    IF fault # "none" THEN [val |-> <<>>, exc |-> fault]
    ELSE IF ~c.exists THEN [val |-> <<>>, exc |-> "ResourceNotFoundError"]
    ELSE [val |-> azure_list_files(c), exc |-> "none"]

\* ------------------------------------------- clients of the cloud classes
Outcome(op, name, raised, val, exc, pre) ==
    IF raised THEN Raise(op, name, exc, pre) ELSE Return(op, name, val, pre)

AwsCreateContainer(fault) ==
    /\ LET r == aws_create_container(bucket, fault)
       IN /\ bucket' = r.bucket
          /\ ret' = Outcome("create_container", "aws", r.exc # "none", TRUE, r.exc,
                            [existed |-> bucket.exists, store |-> bucket,
                             fault |-> fault, calls |-> r.calls])
    /\ UNCHANGED <<localVars, appVars, container>>

AzureCreateContainer(fault) ==
    /\ LET r == azure_create_container(container, fault)
       IN /\ container' = r.container
          /\ ret' = Outcome("create_container", "azure", r.exc # "none", TRUE, r.exc,
                            [existed |-> container.exists, store |-> container])
    /\ UNCHANGED <<localVars, appVars, bucket>>

AwsUpload(filename, file_stream, fault) ==
    /\ LET r == aws_upload_file(bucket, filename, file_stream, fault)
       IN /\ bucket' = r.bucket
          /\ ret' = Outcome("aws_upload_file", filename, r.raised,
                            aws_get_file_url(filename), "ClientError", NoPre)
    /\ UNCHANGED <<localVars, appVars, container>>

AwsDelete(filename, fault) ==
    /\ LET r == aws_delete_file(bucket, filename, fault)
       IN /\ bucket' = r.bucket
          /\ ret' = Outcome("aws_delete_file", filename, r.raised, r.val, "ClientError",
                            [existed |-> filename \in DOMAIN bucket.objects,
                             store |-> bucket])
    /\ UNCHANGED <<localVars, appVars, container>>

AzureUpload(filename, file_stream, fault) ==
    /\ LET r == azure_upload_file(container, filename, file_stream, fault)
       IN /\ container' = r.container
          /\ ret' = Outcome("azure_upload_file", filename, r.raised,
                            azure_get_file_url(filename), "HttpResponseError", NoPre)
    /\ UNCHANGED <<localVars, appVars, bucket>>

AzureDelete(filename, fault) ==
    /\ LET r == azure_delete_file(container, filename, fault)
       IN /\ container' = r.container
          /\ ret' = Outcome("azure_delete_file", filename, r.raised, r.val,
                            "HttpResponseError",
                            [existed |-> filename \in DOMAIN container.blobs,
                             store |-> container])
    /\ UNCHANGED <<localVars, appVars, bucket>>

\* the stream the container scenario stores: the longest payload
TestStream == [kind |-> "stream", data |-> [i \in 1..MaxLen |-> i % (MaxByte + 1)]]

\* the three storage classes driven side by side, as test_suite.py,
\* test_aws_storage.py and test_local_storage.py do: containers are created
\* again and again between uploads and deletes
ContainerNext ==
    \/ LocalCreateContainer
    \/ \E n \in OneName : LocalUpload(n, TestStream)
    \/ \E n \in OneName : LocalDelete(n)
    \/ \E fault \in AwsFaults : AwsCreateContainer(fault)
    \/ \E fault \in BOOLEAN : AzureCreateContainer(fault)
    \/ \E n \in OneName, fault \in BOOLEAN : AwsUpload(n, TestStream, fault)
    \/ \E n \in OneName, fault \in BOOLEAN : AwsDelete(n, fault)
    \/ \E n \in OneName, fault \in BOOLEAN : AzureUpload(n, TestStream, fault)
    \/ \E n \in OneName, fault \in BOOLEAN : AzureDelete(n, fault)

SpecContainers == Init /\ [][ContainerNext]_vars

\* what a cloud call found before it ran
Before(store, existed, fault) == [existed |-> existed, store |-> store, fault |-> fault]

AwsExists(filename, fault) ==
    /\ LET r == aws_file_exists(bucket, filename, fault)
       IN ret' = Outcome("aws_file_exists", filename, r.exc # "none", r.val, r.exc,
                         Before(bucket, filename \in DOMAIN bucket.objects, fault))
    /\ UNCHANGED <<localVars, appVars, cloudVars>>

AzureExists(filename, fault) ==
    /\ LET r == azure_file_exists(container, filename, fault)
       IN ret' = Outcome("azure_file_exists", filename, r.exc # "none", r.val, r.exc,
                         Before(container, filename \in DOMAIN container.blobs, fault))
    /\ UNCHANGED <<localVars, appVars, cloudVars>>

\* file_exists when os.path.exists cannot stat the path: it answers False
LocalExistsError(filename) ==
    /\ ret' = Return("file_exists", filename, FALSE,
                     [NoPre EXCEPT !.last = expect[filename].last, !.via = "OSError"])
    /\ UNCHANGED <<localVars, appVars, cloudVars>>

AwsDownload(filename, fault) ==
    /\ LET r == aws_download_file(bucket, filename, fault)
       IN ret' = Outcome("aws_download_file", filename, r.exc # "none", r.val, r.exc,
                         Before(bucket, filename \in DOMAIN bucket.objects, fault))
    /\ UNCHANGED <<localVars, appVars, cloudVars>>

AzureDownload(filename, fault) ==
    /\ LET r == azure_download_file(container, filename, fault)
       IN ret' = Outcome("azure_download_file", filename, r.exc # "none", r.val, r.exc,
                         Before(container, filename \in DOMAIN container.blobs, fault))
    /\ UNCHANGED <<localVars, appVars, cloudVars>>

AwsList(fault) ==
    /\ LET r == aws_list_files_call(bucket, fault)
       IN ret' = Outcome("aws_list_files", "", r.exc # "none", r.val, r.exc,
                         Before(bucket, bucket.exists, fault))
    /\ UNCHANGED <<localVars, appVars, cloudVars>>

AzureList(fault) ==
    /\ LET r == azure_list_files_call(container, fault)
       IN ret' = Outcome("azure_list_files", "", r.exc # "none", r.val, r.exc,
                         Before(container, container.exists, fault))
    /\ UNCHANGED <<localVars, appVars, cloudVars>>

AwsGetUrl(filename) ==
    /\ ret' = Return("aws_get_file_url", filename, aws_get_file_url(filename),
                     Before(bucket, filename \in DOMAIN bucket.objects, "none"))
    /\ UNCHANGED <<localVars, appVars, cloudVars>>

AzureGetUrl(filename) ==
    /\ ret' = Return("azure_get_file_url", filename, azure_get_file_url(filename),
                     Before(container, filename \in DOMAIN container.blobs, "none"))
    /\ UNCHANGED <<localVars, appVars, cloudVars>>

\* object names the classes are called with; the demo and the tests pass
\* names the web form never produces
CloudNames == {"a.png", "my photo.png"}

\* the three classes called as demo_storage.py and test_suite.py call them,
\* in any order, with requests that fail and requests that succeed
CloudNext ==
    \/ LocalCreateContainer
    \/ \E n \in OneName : LocalUpload(n, TestStream)
    \/ \E n \in OneName : LocalDelete(n)
    \/ \E n \in OneName : LocalDownload(n)
    \/ \E n \in OneName : LocalExists(n)
    \/ \E n \in OneName : LocalExistsError(n)
    \/ \E n \in OneName : LocalGetUrl(n)
    \/ LocalList
    \/ \E fault \in AwsFaults : AwsCreateContainer(fault)
    \/ \E fault \in BOOLEAN : AzureCreateContainer(fault)
    \/ \E n \in CloudNames, fault \in BOOLEAN : AwsUpload(n, TestStream, fault)
    \/ \E n \in CloudNames, fault \in BOOLEAN : AwsDelete(n, fault)
    \/ \E n \in CloudNames, fault \in BOOLEAN : AzureUpload(n, TestStream, fault)
    \/ \E n \in CloudNames, fault \in BOOLEAN : AzureDelete(n, fault)
    \/ \E n \in CloudNames, fault \in AwsErrors : AwsExists(n, fault)
    \/ \E n \in CloudNames, fault \in AzureErrors : AzureExists(n, fault)
    \/ \E n \in CloudNames, fault \in AwsErrors : AwsDownload(n, fault)
    \/ \E n \in CloudNames, fault \in AzureErrors : AzureDownload(n, fault)
    \/ \E fault \in AwsErrors : AwsList(fault)
    \/ \E fault \in AzureErrors : AzureList(fault)
    \/ \E n \in CloudNames : AwsGetUrl(n)
    \/ \E n \in CloudNames : AzureGetUrl(n)

SpecCloud == Init /\ [][CloudNext]_vars

\* --------------------------------------------- app.py: module-level boot
\* os.environ.get('STORAGE_TYPE', 'local').lower(); "gcs" stands for every
\* value other than the three the code tests for
ConfigValues == {"aws", "azure", "local", "gcs"}

\* the if statements of lines 40 and 55 that follow the aws block
after_aws(st) ==
    IF st = "azure" THEN "azure_init" ELSE IF st = "local" THEN "local_init" ELSE "serving"

\* the if statement of line 55 that follows the azure block
after_azure(st) == IF st = "local" THEN "local_init" ELSE "serving"

Printed(text, e) == [text |-> text, e |-> e]

\* line 23: if STORAGE_TYPE == 'aws'
BootSelect ==
    /\ pc = "boot"
    /\ pc' = IF STORAGE_TYPE = "aws" THEN "aws_init" ELSE after_aws(STORAGE_TYPE)
    /\ UNCHANGED <<localVars, fresh, ret, cloudVars, STORAGE_TYPE, storage,
                   storage_type_name, log, env, threads, failed>>

\* lines 25-31: storage = AWSS3Storage(...)
AwsInit(ok) ==
    /\ pc = "aws_init"
    /\ IF ok
       THEN /\ storage' = "AWSS3Storage"
            /\ pc' = "aws_create"
            /\ UNCHANGED <<ret, failed>>
       ELSE /\ ret' = Raise("__init__", "aws", "NoCredentialsError", NoPre)
            /\ failed' = failed \cup {"aws"}
            /\ pc' = "aws_failed"
            /\ UNCHANGED storage
    /\ UNCHANGED <<localVars, fresh, cloudVars, STORAGE_TYPE, storage_type_name, log, env, threads>>

\* lines 32-34: storage.create_container() and what follows it in the try
AwsCreate(fault) ==
    /\ pc = "aws_create"
    /\ LET r == aws_create_container(bucket, fault)
       IN /\ bucket' = r.bucket
          /\ IF r.exc = "none"
             THEN /\ storage_type_name' = "AWS S3 Storage"
                  /\ log' = Append(log, Printed("Using AWS S3 Storage", "none"))
                  /\ pc' = after_aws(STORAGE_TYPE)
                  /\ ret' = Return("create_container", "aws", TRUE,
                                   [existed |-> bucket.exists, store |-> bucket])
                  /\ UNCHANGED failed
             ELSE /\ ret' = Raise("create_container", "aws", r.exc,
                                  [existed |-> bucket.exists, store |-> bucket])
                  /\ failed' = failed \cup {"aws"}
                  /\ pc' = "aws_failed"
                  /\ UNCHANGED <<storage_type_name, log>>
    /\ UNCHANGED <<localVars, fresh, container, STORAGE_TYPE, storage, env, threads>>

\* the except block without the reassignment of STORAGE_TYPE
AwsFailed_stays ==
    /\ pc = "aws_failed"
    /\ log' = log \o <<Printed("AWS S3 initialization failed", ret.exc),
                       Printed("Falling back to Local Storage...", "none")>>
    /\ pc' = after_aws(STORAGE_TYPE)
    /\ UNCHANGED <<localVars, fresh, ret, cloudVars, STORAGE_TYPE, storage,
                   storage_type_name, env, threads, failed>>

\* the except block handing over to the next backend in the chain
AwsFailed_chains ==
    /\ pc = "aws_failed"
    /\ log' = log \o <<Printed("AWS S3 initialization failed", ret.exc),
                       Printed("Falling back to Local Storage...", "none")>>
    /\ STORAGE_TYPE' = "azure"
    /\ pc' = after_aws("azure")
    /\ UNCHANGED <<localVars, fresh, ret, cloudVars, storage, storage_type_name, env, threads, failed>>

\* lines 35-38: except Exception as e
AwsFailed ==
    /\ pc = "aws_failed"
    /\ log' = log \o <<Printed("AWS S3 initialization failed", ret.exc),
                       Printed("Falling back to Local Storage...", "none")>>
    /\ STORAGE_TYPE' = "local"
    /\ pc' = after_aws("local")
    /\ UNCHANGED <<localVars, fresh, ret, cloudVars, storage, storage_type_name, env, threads, failed>>

\* lines 42-46: storage = AzureBlobStorage(...)
AzureInit(ok) ==
    /\ pc = "azure_init"
    /\ IF ok
       THEN /\ storage' = "AzureBlobStorage"
            /\ pc' = "azure_create"
            /\ UNCHANGED <<ret, failed>>
       ELSE /\ ret' = Raise("__init__", "azure", "ValueError", NoPre)
            /\ failed' = failed \cup {"azure"}
            /\ pc' = "azure_failed"
            /\ UNCHANGED storage
    /\ UNCHANGED <<localVars, fresh, cloudVars, STORAGE_TYPE, storage_type_name, log, env, threads>>

\* lines 47-49: storage.create_container() and what follows it in the try
AzureCreate(fault) ==
    /\ pc = "azure_create"
    /\ LET r == azure_create_container(container, fault)
       IN /\ container' = r.container
          /\ IF r.exc = "none"
             THEN /\ storage_type_name' = "Azure Blob Storage"
                  /\ log' = Append(log, Printed("Using Azure Blob Storage", "none"))
                  /\ pc' = after_azure(STORAGE_TYPE)
                  /\ ret' = Return("create_container", "azure", TRUE,
                                   [existed |-> container.exists, store |-> container])
                  /\ UNCHANGED failed
             ELSE /\ ret' = Raise("create_container", "azure", r.exc,
                                  [existed |-> container.exists, store |-> container])
                  /\ failed' = failed \cup {"azure"}
                  /\ pc' = "azure_failed"
                  /\ UNCHANGED <<storage_type_name, log>>
    /\ UNCHANGED <<localVars, fresh, bucket, STORAGE_TYPE, storage, env, threads>>

\* lines 50-53: except Exception as e
AzureFailed ==
    /\ pc = "azure_failed"
    /\ log' = log \o <<Printed("Azure Storage initialization failed", ret.exc),
                       Printed("Falling back to Local Storage...", "none")>>
    /\ STORAGE_TYPE' = "local"
    /\ pc' = after_azure("local")
    /\ UNCHANGED <<localVars, fresh, ret, cloudVars, storage, storage_type_name, env, threads, failed>>

\* lines 57-61: storage = LocalFileStorage('uploads', 'photos')
LocalInitStep ==
    /\ pc = "local_init"
    /\ storage' = "LocalFileStorage"
    /\ pc' = "local_create"
    /\ UNCHANGED <<localVars, fresh, ret, cloudVars, STORAGE_TYPE, storage_type_name,
                   log, env, threads, failed>>

\* lines 62-64: storage.create_container() and what follows it in the try
LocalCreate(ok) ==
    /\ pc = "local_create"
    /\ create_container_local(ok)
    /\ IF ok
       THEN /\ storage_type_name' = "Local Storage"
            /\ log' = Append(log, Printed("Using Local File Storage", "none"))
            /\ pc' = "serving"
            /\ ret' = Return("create_container", "local", TRUE,
                             [existed |-> dirExists, store |-> <<dirExists, files>>])
            /\ UNCHANGED failed
       ELSE /\ ret' = Raise("create_container", "local", "OSError",
                            [existed |-> dirExists, store |-> <<dirExists, files>>])
            /\ failed' = failed \cup {"local"}
            /\ pc' = "local_failed"
            /\ UNCHANGED <<storage_type_name, log>>
    /\ UNCHANGED <<fresh, cloudVars, STORAGE_TYPE, storage, env, threads>>

\* lines 65-67: except Exception as e: storage = None
LocalFailed ==
    /\ pc = "local_failed"
    /\ log' = Append(log, Printed("Storage initialization failed", ret.exc))
    /\ storage' = "None"
    /\ pc' = "serving"
    /\ UNCHANGED <<localVars, fresh, ret, cloudVars, STORAGE_TYPE, storage_type_name,
                   env, threads, failed>>

Boot ==
    \/ BootSelect
    \/ \E ok \in BOOLEAN : AwsInit(ok)
    \/ \E fault \in AwsFaults : AwsCreate(fault)
    \/ AwsFailed
    \/ \E ok \in BOOLEAN : AzureInit(ok)
    \/ \E fault \in BOOLEAN : AzureCreate(fault)
    \/ AzureFailed
    \/ LocalInitStep
    \/ \E ok \in BOOLEAN : LocalCreate(ok)
    \/ LocalFailed

\* ------------------------------------------------ app.py: the handlers
ALLOWED_EXTENSIONS == {"png", "jpg", "jpeg", "gif", "webp"}

\* file.filename as the browser sends it
RequestFilenames == {"", "a.png", "../b.jpg", "notes", "a.txt"}

\* filename.rsplit('.', 1)[1].lower(), "" when the name has no dot
rsplit_ext(filename) ==
    CASE filename = "a.png" -> "png"
      [] filename = "../b.jpg" -> "jpg"
      [] filename = "a.txt" -> "txt"
      [] OTHER -> ""

\* allowed_file(filename)
allowed_file(filename) ==
    /\ filename \in {"a.png", "../b.jpg", "a.txt"}         \* '.' in filename
    /\ rsplit_ext(filename) \in ALLOWED_EXTENSIONS

\* werkzeug.utils.secure_filename: path separators and leading dots go
secure_filename(filename) == IF filename = "../b.jpg" THEN "b.jpg" ELSE filename

\* a Flask response: status code, redirect target or template, flashed text
\* the storage calls a handler made while it served the request
NoCall == [calls |-> 0, raised |-> FALSE]
Called(raised) == [calls |-> 1, raised |-> raised]

Response(route, name, code, to, flash) ==
    Return(route, name, [code |-> code, to |-> to, flash |-> flash], NoCall)

\* the response of a handler after its one storage call
Handled(route, name, code, to, flash, raised) ==
    Return(route, name, [code |-> code, to |-> to, flash |-> flash], Called(raised))

\* storage.upload_file(file, filename) on the handle the process holds
storage_upload_file(filename, file_stream, ok) ==
    CASE storage = "LocalFileStorage" ->
            /\ \/ ok /\ upload_file_local(filename, file_stream)
               \/ ~ok /\ \E at \in {"makedirs", "open"} :
                            upload_file_local_raises(filename, at)
               \/ ~ok /\ \E k \in 0..(MaxLen - 1) :
                            upload_file_local_torn(filename, file_stream, k)
            /\ fresh' = (ok /\ fresh /\ expect[filename].last = "none")
            /\ UNCHANGED cloudVars
      [] storage = "AWSS3Storage" ->
            /\ \E fault \in BOOLEAN :
                  LET r == aws_upload_file(bucket, filename, file_stream, fault)
                  IN bucket' = r.bucket /\ ok = ~r.raised
            /\ UNCHANGED <<localVars, fresh, container>>
      [] storage = "AzureBlobStorage" ->
            /\ \E fault \in BOOLEAN :
                  LET r == azure_upload_file(container, filename, file_stream, fault)
                  IN container' = r.container /\ ok = ~r.raised
            /\ UNCHANGED <<localVars, fresh, bucket>>

\* storage.delete_file(filename) on the handle the process holds
storage_delete_file(filename, ok) ==
    CASE storage = "LocalFileStorage" ->
            /\ \/ ok /\ delete_file_local(filename)
               \/ /\ ~ok
                  /\ path_exists(files, filename)          \* os.remove raises
                  /\ UNCHANGED <<dirExists, files, clock, expect>>
            /\ fresh' = FALSE
            /\ UNCHANGED cloudVars
      [] storage = "AWSS3Storage" ->
            /\ \E fault \in BOOLEAN :
                  LET r == aws_delete_file(bucket, filename, fault)
                  IN bucket' = r.bucket /\ ok = ~r.raised
            /\ UNCHANGED <<localVars, fresh, container>>
      [] storage = "AzureBlobStorage" ->
            /\ \E fault \in BOOLEAN :
                  LET r == azure_delete_file(container, filename, fault)
                  IN container' = r.container /\ ok = ~r.raised
            /\ UNCHANGED <<localVars, fresh, bucket>>

\* storage.list_files() on the handle the process holds
storage_list_files(ok, images) ==
    CASE storage = "LocalFileStorage" ->
            \/ ok /\ \E order \in listdir(files) :
                        images = list_files(dirExists, files, order)
            \/ ~ok /\ dirExists /\ images = <<>>            \* os.listdir raises
      [] storage = "AWSS3Storage" ->
            \E fault \in BOOLEAN :
                /\ ok = (~fault /\ bucket.exists)
                /\ images = IF ok THEN aws_list_files(bucket) ELSE <<>>
      [] storage = "AzureBlobStorage" ->
            \E fault \in BOOLEAN :
                /\ ok = (~fault /\ container.exists)
                /\ images = IF ok THEN azure_list_files(container) ELSE <<>>

\* lines 73-76
route_index ==
    /\ pc = "serving"
    /\ ret' = Response("index", "", 200, "index.html", storage_type_name)
    /\ UNCHANGED <<localVars, fresh, cloudVars, appVars>>

\* the handler without its try/except around storage.upload_file
route_upload_file_propagates(has_file, filename, file_stream) ==
    /\ pc = "serving"
    /\ IF storage = "None"
       THEN /\ ret' = Response("upload_file", filename, 302, "index",
                               "Storage service not configured")
            /\ UNCHANGED <<localVars, fresh, cloudVars>>
       ELSE IF ~has_file \/ filename = ""
       THEN /\ ret' = Response("upload_file", filename, 302, "index", "No file selected")
            /\ UNCHANGED <<localVars, fresh, cloudVars>>
       ELSE IF allowed_file(filename)
       THEN \E ok \in BOOLEAN :
               /\ storage_upload_file(secure_filename(filename), file_stream, ok)
               /\ ret' = IF ok
                         THEN Handled("upload_file", secure_filename(filename), 302,
                                      "gallery", "File uploaded successfully", FALSE)
                         ELSE Raise("upload_file", secure_filename(filename),
                                    "Exception", Called(TRUE))
       ELSE /\ ret' = Response("upload_file", filename, 302, "index", "Invalid file type")
            /\ UNCHANGED <<localVars, fresh, cloudVars>>
    /\ UNCHANGED appVars

\* lines 78-109: has_file is 'file' in request.files
route_upload_file(has_file, filename, file_stream) ==
    /\ pc = "serving"
    /\ IF storage = "None"
       THEN /\ ret' = Response("upload_file", filename, 302, "index",
                               "Storage service not configured")
            /\ UNCHANGED <<localVars, fresh, cloudVars>>
       ELSE IF ~has_file \/ filename = ""
       THEN /\ ret' = Response("upload_file", filename, 302, "index", "No file selected")
            /\ UNCHANGED <<localVars, fresh, cloudVars>>
       ELSE IF allowed_file(filename)
       THEN \E ok \in BOOLEAN :
               /\ storage_upload_file(secure_filename(filename), file_stream, ok)
               /\ ret' = IF ok
                         THEN Handled("upload_file", secure_filename(filename), 302,
                                      "gallery", "File uploaded successfully", FALSE)
                         ELSE Handled("upload_file", secure_filename(filename), 302,
                                      "index", "Upload failed", TRUE)
       ELSE /\ ret' = Response("upload_file", filename, 302, "index", "Invalid file type")
            /\ UNCHANGED <<localVars, fresh, cloudVars>>
    /\ UNCHANGED appVars

\* lines 111-123
route_gallery ==
    /\ pc = "serving"
    /\ IF storage = "None"
       THEN ret' = Response("gallery", "", 302, "index", "Storage service not configured")
       ELSE \E ok \in BOOLEAN, images \in Listings \cup {<<>>, aws_list_files(bucket),
                                                         azure_list_files(container)} :
               /\ storage_list_files(ok, images)
               /\ ret' = IF ok
                         THEN Return("gallery", "", [code |-> 200, to |-> "gallery.html",
                                                     flash |-> "", images |-> images],
                                     Called(FALSE))
                         ELSE Return("gallery", "", [code |-> 200, to |-> "gallery.html",
                                                     flash |-> "Error loading gallery",
                                                     images |-> <<>>], Called(TRUE))
    /\ UNCHANGED <<localVars, fresh, cloudVars, appVars>>

\* the handler with an except block that drops the handle
route_delete_file_drops(filename) ==
    /\ pc = "serving"
    /\ IF storage = "None"
       THEN /\ ret' = Response("delete_file", filename, 500, "json",
                               "Storage service not configured")
            /\ UNCHANGED <<localVars, fresh, cloudVars, appVars>>
       ELSE \E ok \in BOOLEAN :
               /\ storage_delete_file(filename, ok)
               /\ ret' = IF ok
                         THEN Handled("delete_file", filename, 200, "json",
                                      "File deleted", FALSE)
                         ELSE Handled("delete_file", filename, 500, "json", "error", TRUE)
               /\ storage' = IF ok THEN storage ELSE "None"
               /\ UNCHANGED <<STORAGE_TYPE, storage_type_name, pc, log, env, threads, failed>>

\* the handler answering an error when delete_file returned False
route_delete_file_checks(filename) ==
    /\ pc = "serving"
    /\ IF storage = "None"
       THEN /\ ret' = Response("delete_file", filename, 500, "json",
                               "Storage service not configured")
            /\ UNCHANGED <<localVars, fresh, cloudVars>>
       ELSE \E ok \in BOOLEAN :
               /\ storage_delete_file(filename, ok)
               /\ ret' = IF ok /\ (storage = "LocalFileStorage"
                                      => path_exists(files, filename))
                         THEN Handled("delete_file", filename, 200, "json",
                                      "File deleted", FALSE)
                         ELSE Handled("delete_file", filename, 500, "json", "error", ~ok)
    /\ UNCHANGED appVars

\* lines 125-136
route_delete_file(filename) ==
    /\ pc = "serving"
    /\ IF storage = "None"
       THEN /\ ret' = Response("delete_file", filename, 500, "json",
                               "Storage service not configured")
            /\ UNCHANGED <<localVars, fresh, cloudVars>>
       ELSE \E ok \in BOOLEAN :
               /\ storage_delete_file(filename, ok)
               /\ ret' = IF ok
                         THEN Handled("delete_file", filename, 200, "json",
                                      "File deleted", FALSE)
                         ELSE Handled("delete_file", filename, 500, "json", "error", TRUE)
    /\ UNCHANGED appVars

\* lines 138-146: send_from_directory answers 404 for a file that is not there
route_serve_uploaded_file(dir, filename) ==
    /\ pc = "serving"
    /\ ret' = IF STORAGE_TYPE = "local"
              THEN IF dir = container_name /\ path_exists(files, filename)
                   THEN Return("serve_uploaded_file", filename,
                               [code |-> 200, to |-> "file", flash |-> "",
                                body |-> files[filename].data], NoCall)
                   ELSE Response("serve_uploaded_file", filename, 404, "", "")
              ELSE IF storage = "AWSS3Storage"
                   THEN Response("serve_uploaded_file", filename, 302,
                                 aws_get_file_url(filename), "")
              ELSE IF storage = "AzureBlobStorage"
                   THEN Response("serve_uploaded_file", filename, 302,
                                 azure_get_file_url(filename), "")
              ELSE Raise("serve_uploaded_file", filename, "AttributeError", NoCall)
    /\ UNCHANGED <<localVars, fresh, cloudVars, appVars>>

\* health() that answers storage_configured true whatever the handle
health_configured ==
    [status |-> "healthy",
     storage_configured |-> TRUE,
     storage_type |-> storage_type_name]

\* health() as a value
health ==
    [status |-> "healthy",
     storage_configured |-> storage # "None",
     storage_type |-> storage_type_name]

\* lines 148-155
route_health ==
    /\ pc = "serving"
    /\ ret' = Return("health", "", health, NoCall)
    /\ UNCHANGED <<localVars, fresh, cloudVars, appVars>>

\* lines 157-161: the 413 error handler
too_large ==
    /\ pc = "serving"
    /\ ret' = Response("too_large", "", 302, "index", "File too large. Maximum size is 16MB")
    /\ UNCHANGED <<localVars, fresh, cloudVars, appVars>>

Dirs == {"photos", "thumbs"}

Handlers ==
    \/ route_index
    \/ \E has_file \in BOOLEAN, filename \in RequestFilenames :
          route_upload_file(has_file, filename, TestStream)
    \/ route_gallery
    \/ \E filename \in Names : route_delete_file(filename)
    \/ \E dir \in Dirs, filename \in Names : route_serve_uploaded_file(dir, filename)
    \/ route_health
    \/ too_large

\* the process of app.py: the environment it starts in
AppInit ==
    /\ env \in ConfigValues
    /\ STORAGE_TYPE = env
    /\ storage = "None"
    /\ storage_type_name = "Local Storage"
    /\ pc = "boot"
    /\ log = <<>>
    /\ failed = {}
    /\ threads = [t \in ThreadIds |-> Idle]
    /\ LocalInit
    /\ CloudIdle

AppNext == Boot \/ Handlers

\* the module-level code runs to its end when app.py is imported
SpecApp == AppInit /\ [][AppNext]_vars /\ WF_vars(Boot)

\* ------------------------------------------------------------- properties
\* the names the callers hold an object under
Uploaded == {n \in Names : expect[n].last = "upload"}

\* the entries of a listing that carry a name
EntriesOf(listing, n) == {i \in DOMAIN listing : listing[i].name = n}

\* C1: a download of a name whose last call was a successful upload of b,
\* passed as a stream or as bytes, returns exactly b
C1_RoundTrip ==
    \A n \in Uploaded :
        /\ download_file(files, n).exc = "none"
        /\ download_file(files, n).val = expect[n].data
        /\ (ret.op = "download_file" /\ ret.name = n) =>
              (ret.exc = "none" /\ ret.val = expect[n].data)

\* a multi-chunk stream with differing bytes was uploaded and downloaded
C1_Witness ==
    /\ ret.op = "download_file"
    /\ ret.exc = "none"
    /\ expect[ret.name].last = "upload"
    /\ expect[ret.name].via = "stream"
    /\ Len(ret.val) > ChunkSize
    /\ ret.val[1] # ret.val[2]

\* C2: file_exists(n) is true exactly when the last successful call on n was
\* an upload, false after a delete and for a name never uploaded
C2_ExistsTracksStore ==
    \A n \in Names :
        /\ expect[n].last # "torn" => (file_exists(n) <=> expect[n].last = "upload")
        /\ (ret.op = "file_exists" /\ ret.name = n /\ expect[n].last # "torn") =>
              (ret.val <=> expect[n].last = "upload")

\* file_exists answered False for a deleted name while another is stored
C2_Witness ==
    /\ ret.op = "file_exists"
    /\ ret.val = FALSE
    /\ expect[ret.name].last = "delete"
    /\ \E m \in Names : expect[m].last = "upload" /\ file_exists(m)
    /\ \E m \in Names : expect[m].last = "none" /\ ~file_exists(m)

\* the files of the other names are what the callers left there
OthersUntouched(n) ==
    \A m \in Names \ {n} :
        /\ expect[m].last = "upload" =>
              (path_exists(files, m) /\ files[m].data = expect[m].data)
        /\ expect[m].last \in {"none", "delete"} => ~path_exists(files, m)

\* C3: delete_file(n) returns True and removes n when n is stored; when n
\* is not stored it returns False, never raises and changes no stored object
C3_DeleteResult ==
    ret.op = "delete_file" =>
        /\ ret.exc = "none" =>
              /\ ret.val = (ret.pre.last \in {"upload", "torn"})
              /\ ~path_exists(files, ret.name)
              /\ OthersUntouched(ret.name)
        /\ ret.exc # "none" => ret.pre.last \in {"upload", "torn"}

\* a second delete right after a successful one returned False, the other
\* stored object still there
C3_Witness ==
    /\ ret.op = "delete_file"
    /\ ret.exc = "none"
    /\ ret.val = FALSE
    /\ ret.pre.last = "delete"
    /\ \E m \in Names \ {ret.name} : expect[m].last = "upload" /\ path_exists(files, m)

\* C5: from an empty container, after N uploads of distinct names every
\* listing has exactly N entries, one per name, each with the uploaded size
C5_ListAfterUploads ==
    fresh =>
        \A listing \in Listings \cup (IF ret.op = "list_files" THEN {ret.val} ELSE {}) :
            /\ Len(listing) = Cardinality(Uploaded)
            /\ \A n \in Uploaded :
                  /\ Cardinality(EntriesOf(listing, n)) = 1
                  /\ \A i \in EntriesOf(listing, n) :
                        listing[i].size = Len(expect[n].data)

\* three distinct names of three different sizes were uploaded and listed
C5_Witness ==
    /\ fresh
    /\ ret.op = "list_files"
    /\ Len(ret.val) = 3
    /\ Cardinality({ret.val[i].size : i \in 1..3}) = 3

\* when the object a listing entry names was uploaded
UploadedAt(entry) == expect[entry.name].at

\* C6 as stated: every listing is ordered by strictly decreasing upload
\* time, also for uploads within one clock second
C6_NewestFirst ==
    \A listing \in Listings :
        \A i, j \in DOMAIN listing :
            i < j => UploadedAt(listing[i]) > UploadedAt(listing[j])

\* C6 amended: an entry uploaded in a later clock second is listed before
\* every entry uploaded in an earlier one; within one second the order is
\* the one os.listdir gave
C6_NewestSecondFirst ==
    \A listing \in Listings \cup (IF ret.op = "list_files" THEN {ret.val} ELSE {}) :
        \A i, j \in DOMAIN listing :
            /\ listing[i].name \in Uploaded => listing[i].created = strftime(UploadedAt(listing[i]))
            /\ i < j => listing[i].created >= listing[j].created

\* three uploads listed, the newest second first and, within the older
\* second, the earlier upload before the later one
C6_Witness ==
    /\ ret.op = "list_files"
    /\ Len(ret.val) = 3
    /\ \A i \in 1..3 : ret.val[i].name \in Uploaded
    /\ ret.val[1].created > ret.val[2].created
    /\ ret.val[2].created = ret.val[3].created
    /\ UploadedAt(ret.val[2]) < UploadedAt(ret.val[3])

\* C7: after a name is uploaded again, every listing has exactly one entry
\* of that name, with the size of the new bytes, and a download returns the
\* new bytes alone
C7_OverwriteUnique ==
    (ret.op = "upload_file" /\ ret.exc = "none" /\ ret.pre.last = "upload") =>
        /\ download_file(files, ret.name).exc = "none"
        /\ download_file(files, ret.name).val = expect[ret.name].data
        /\ \A listing \in Listings :
              /\ Cardinality(EntriesOf(listing, ret.name)) = 1
              /\ \A i \in EntriesOf(listing, ret.name) :
                    listing[i].size = Len(expect[ret.name].data)

\* a name was uploaded again with fewer bytes while another name is stored
C7_Witness ==
    /\ ret.op = "upload_file"
    /\ ret.exc = "none"
    /\ ret.pre.last = "upload"
    /\ Len(expect[ret.name].data) < Len(ret.pre.data)
    /\ Cardinality(DOMAIN files) > 1

\* the errors a backend that cannot be reached or refuses the caller gives
BackendErrors == {"ClientError", "HttpResponseError"}

\* C4: create_container called on a container that exists (directory,
\* bucket or blob container) returns True, never fails for the container
\* being there, and leaves the container and every stored object as they
\* were; only a backend that cannot be reached makes it raise
C4_CreateIdempotent ==
    (ret.op = "create_container" /\ ret.pre.existed) =>
        /\ \/ ret.exc = "none" /\ ret.val = TRUE
           \/ ret.name # "local" /\ ret.exc \in BackendErrors
        /\ ret.name = "local" => <<dirExists, files>> = ret.pre.store
        /\ ret.name = "aws" => bucket = ret.pre.store
        /\ ret.name = "azure" => container = ret.pre.store

\* create_container returned True on an Azure container that already holds
\* a blob
C4_Witness ==
    /\ ret.op = "create_container"
    /\ ret.name = "azure"
    /\ ret.pre.existed
    /\ ret.exc = "none"
    /\ ret.val = TRUE
    /\ DOMAIN container.blobs # {}

\* ----------------------------------------------------------- boot claims
CloudBackends == {"aws", "azure"}

\* what the except block of a cloud backend prints first
FailureText(b) ==
    IF b = "aws" THEN "AWS S3 initialization failed"
                 ELSE "Azure Storage initialization failed"

\* the boot ran to its end after the configured cloud backend raised
FellBack == pc = "serving" /\ env \in CloudBackends /\ env \in failed

\* the failure was printed with its reason, and the local backend was tried after it
LoggedThenLocal ==
    /\ Len(log) = 3
    /\ log[1].text = FailureText(env)
    /\ log[1].e \in {"NoCredentialsError", "ValueError"} \cup BackendErrors
    /\ log[2].text = "Falling back to Local Storage..."
    /\ log[3].text \in {"Using Local File Storage", "Storage initialization failed"}
    /\ (log[3].text = "Using Local File Storage") <=> ("local" \notin failed)

\* C8 as stated: when the configured backend is aws or azure and its
\* construction or create_container() raises, the boot logs the reason, then
\* initialises the local backend; the handle is a LocalFileStorage and health
\* reports storage type 'Local Storage'.
C8_BootFallback ==
    FellBack =>
        /\ LoggedThenLocal
        /\ storage = "LocalFileStorage"
        /\ health.storage_type = "Local Storage"

\* C8 amended: when the configured backend is aws or azure and its
\* construction or create_container() raises, the boot logs the reason, then
\* initialises the local backend; health reports storage type 'Local Storage'
\* and the handle is a LocalFileStorage over an existing directory, unless the
\* local create_container() raises as well, and then the handle is None and
\* health reports storage_configured false.
C8_BootFallbackOrNone ==
    FellBack =>
        /\ LoggedThenLocal
        /\ STORAGE_TYPE = "local"
        /\ health.storage_type = "Local Storage"
        /\ storage = IF "local" \in failed THEN "None" ELSE "LocalFileStorage"
        /\ health.storage_configured = ("local" \notin failed)
        /\ "local" \notin failed => dirExists
        /\ ret.op = "health" => ret.val = health

\* health answered after a cloud backend failed and the local one came up
C8_Witness ==
    /\ FellBack
    /\ storage = "LocalFileStorage"
    /\ ret.op = "health"
    /\ ret.val.storage_type = "Local Storage"
    /\ ret.val.storage_configured

\* C9: for every value of STORAGE_TYPE and every pattern of initialisation
\* failures the boot ends holding a non-null backend handle.
C9_EndsReady ==
    pc = "serving" => storage \in {"AWSS3Storage", "AzureBlobStorage", "LocalFileStorage"}

\* C10: once the boot is over, no step of a request handler changes the
\* storage handle, STORAGE_TYPE or storage_type_name, whether its storage call
\* returns or raises.
C10_HandleImmutable ==
    [][pc = "serving" =>
          /\ pc' = "serving"
          /\ storage' = storage
          /\ STORAGE_TYPE' = STORAGE_TYPE
          /\ storage_type_name' = storage_type_name]_vars

\* a delete request whose storage call raised, on a process that holds a handle
C10_Witness ==
    /\ pc = "serving"
    /\ storage # "None"
    /\ ret.op = "delete_file"
    /\ ret.val.code = 500

\* -------------------------------------------- claims on the three classes
\* the local file of name n is there exactly when the callers left it there
LocalAsLeft(n) == path_exists(files, n) <=> (expect[n].last \in {"upload", "torn"})

\* C11 as stated: on every backend delete(name) returns true exactly when an
\* object was removed and false when the object did not exist.
C11_DeleteTrueIffRemoved ==
    /\ (ret.op = "delete_file" /\ ret.exc = "none") =>
          ret.val = (ret.pre.last \in {"upload", "torn"})
    /\ (ret.op \in {"aws_delete_file", "azure_delete_file"} /\ ret.exc = "none") =>
          ret.val = ret.pre.existed

\* C11 amended: on the local and the Azure backend delete(name) returns true
\* exactly when an object was removed and false when it did not exist; on
\* the AWS backend a delete that returns always returns true, also when the
\* object did not exist. On every backend the object is not stored afterwards
\* and the other objects stay.
C11_DeleteTrueIffRemovedButAws ==
    /\ (ret.op = "delete_file" /\ ret.exc = "none") =>
          /\ ret.val = (ret.pre.last \in {"upload", "torn"})
          /\ ~path_exists(files, ret.name)
    /\ (ret.op = "azure_delete_file" /\ ret.exc = "none") =>
          /\ ret.val = ret.pre.existed
          /\ container.exists = ret.pre.store.exists
          /\ container.blobs = os_remove(ret.pre.store.blobs, ret.name)
    /\ (ret.op = "aws_delete_file" /\ ret.exc = "none") =>
          /\ ret.val = TRUE
          /\ bucket.objects = os_remove(ret.pre.store.objects, ret.name)

\* delete_file on the AWS class returned True for a key that was not stored,
\* the other key still there
C11_Witness ==
    /\ ret.op = "aws_delete_file"
    /\ ret.exc = "none"
    /\ ~ret.pre.existed
    /\ ret.val = TRUE
    /\ DOMAIN bucket.objects # {}

ExistsOps == {"file_exists", "aws_file_exists", "azure_file_exists"}

\* the probe behind this file_exists call failed
ProbeFailed ==
    IF ret.op = "file_exists" THEN ret.pre.via = "OSError" ELSE ret.pre.fault # "none"

\* C12: file_exists(name) never raises on any backend; when the probe fails
\* with any error it returns False, and the store is as it was.
C12_ExistsNeverRaises ==
    ret.op \in ExistsOps =>
        /\ ret.exc = "none"
        /\ ret.val \in BOOLEAN
        /\ ProbeFailed => ret.val = FALSE
        /\ ret.op = "file_exists" => LocalAsLeft(ret.name)
        /\ ret.op = "aws_file_exists" => bucket = ret.pre.store
        /\ ret.op = "azure_file_exists" => container = ret.pre.store

\* the service could not be reached while the key was stored: False came back
C12_Witness ==
    /\ ret.op = "aws_file_exists"
    /\ ret.pre.fault = "EndpointConnectionError"
    /\ ret.pre.existed
    /\ ret.val = FALSE
    /\ ret.name \in DOMAIN bucket.objects

\* C13: download(name) of an object that is not stored fails with a
\* not-found error instead of returning bytes, and changes nothing in the
\* store: no file or object named name exists afterwards.
C13_DownloadAbsentFails ==
    /\ (ret.op = "download_file" /\ expect[ret.name].last \notin {"upload", "torn"}) =>
          /\ ret.exc = "FileNotFoundError"
          /\ ~path_exists(files, ret.name)
    /\ (ret.op = "aws_download_file" /\ ~ret.pre.existed) =>
          /\ ret.exc # "none"
          /\ ret.pre.fault = "none" => ret.exc \in {"NoSuchKey", "NoSuchBucket"}
          /\ bucket = ret.pre.store
          /\ ret.name \notin DOMAIN bucket.objects
    /\ (ret.op = "azure_download_file" /\ ~ret.pre.existed) =>
          /\ ret.exc # "none"
          /\ ret.pre.fault = "none" => ret.exc = "ResourceNotFoundError"
          /\ container = ret.pre.store
          /\ ret.name \notin DOMAIN container.blobs

\* a download of a key that is not in the bucket raised NoSuchKey while
\* another key is stored
C13_Witness ==
    /\ ret.op = "aws_download_file"
    /\ ret.exc = "NoSuchKey"
    /\ ret.name \notin DOMAIN bucket.objects
    /\ DOMAIN bucket.objects # {}

\* C14: list() on an absent container returns an empty sequence rather than
\* an error and does not create the container.
C14_ListAbsentEmpty ==
    /\ (ret.op = "list_files" /\ ~dirExists) => (ret.exc = "none" /\ ret.val = <<>>)
    /\ (ret.op = "aws_list_files" /\ ~ret.pre.existed /\ ret.pre.fault = "none") =>
          (ret.exc = "none" /\ ret.val = <<>> /\ ~bucket.exists)
    /\ (ret.op = "azure_list_files" /\ ~ret.pre.existed /\ ret.pre.fault = "none") =>
          (ret.exc = "none" /\ ret.val = <<>> /\ ~container.exists)

\* C15: for every stored object name the URL returned by upload, the url
\* field of its entry in list() and get_file_url are the same string, and
\* get_file_url returns it for names that are not stored as well.
C15_UrlDeterminism ==
    /\ ret.op \in {"upload_file", "get_file_url"} /\ ret.exc = "none" =>
          ret.val = "/uploads/photos/" \o ret.name
    /\ ret.op \in {"aws_upload_file", "aws_get_file_url"} /\ ret.exc = "none" =>
          ret.val = "https://photos.s3.us-east-1.amazonaws.com/" \o ret.name
    /\ \A listing \in Listings :
          \A i \in DOMAIN listing : listing[i].url = get_file_url(listing[i].name)
    /\ \A i \in DOMAIN aws_list_files(bucket) :
          aws_list_files(bucket)[i].url = aws_get_file_url(aws_list_files(bucket)[i].name)
    /\ \A i \in DOMAIN azure_list_files(container) :
          azure_list_files(container)[i].url =
              azure_get_file_url(azure_list_files(container)[i].name)

\* C20 as stated: in the cloud backends exists(name) maps only the not-found
\* condition to False and re-raises every other error, while the local
\* backend reports False on any error.
C20_CloudExistsReraises ==
    /\ (ret.op \in {"aws_file_exists", "azure_file_exists"} /\ ret.pre.fault # "none") =>
          ret.exc = ret.pre.fault
    /\ (ret.op \in {"aws_file_exists", "azure_file_exists"} /\ ret.pre.fault = "none") =>
          (ret.exc = "none" /\ ret.val = ret.pre.existed)
    /\ (ret.op = "file_exists" /\ ret.pre.via = "OSError") =>
          (ret.exc = "none" /\ ret.val = FALSE)

\* C20 amended: in the cloud backends exists(name) maps the not-found
\* condition and every other error (access denied, network failure) to
\* False without re-raising, so it is True exactly when the probe succeeded
\* on a stored object; the local backend reports False on any error.
C20_CloudExistsSwallows ==
    /\ ret.op \in {"aws_file_exists", "azure_file_exists"} =>
          /\ ret.exc = "none"
          /\ ret.val = (ret.pre.fault = "none" /\ ret.pre.existed)
    /\ (ret.op = "file_exists" /\ ret.pre.via = "OSError") =>
          (ret.exc = "none" /\ ret.val = FALSE)

\* the Azure probe failed on a stored blob and False came back
C20_Witness ==
    /\ ret.op = "azure_file_exists"
    /\ ret.pre.fault = "HttpResponseError"
    /\ ret.pre.existed
    /\ ret.exc = "none"
    /\ ret.val = FALSE

\* ------------------------------------------------- claims on the process
\* C16 as stated: after the boot health reports storage_configured true
\* exactly when a handle is held, and its storage_type names the backend
\* held: 'AWS S3 Storage' iff AWSS3Storage, 'Azure Blob Storage' iff
\* AzureBlobStorage, 'Local Storage' iff LocalFileStorage.
C16_HealthNamesHandle ==
    pc = "serving" =>
        /\ health.storage_configured = (storage # "None")
        /\ (health.storage_type = "AWS S3 Storage") <=> (storage = "AWSS3Storage")
        /\ (health.storage_type = "Azure Blob Storage") <=> (storage = "AzureBlobStorage")
        /\ (health.storage_type = "Local Storage") <=> (storage = "LocalFileStorage")

\* C16 amended: after the boot health reports storage_configured true exactly
\* when a handle is held; its storage_type is 'AWS S3 Storage' iff the handle
\* is an AWSS3Storage, 'Azure Blob Storage' iff it is an AzureBlobStorage, and
\* 'Local Storage' iff it is a LocalFileStorage or no handle is held.
C16_HealthNamesHandleOrNone ==
    pc = "serving" =>
        /\ health.storage_configured = (storage # "None")
        /\ (health.storage_type = "AWS S3 Storage") <=> (storage = "AWSS3Storage")
        /\ (health.storage_type = "Azure Blob Storage") <=> (storage = "AzureBlobStorage")
        /\ (health.storage_type = "Local Storage") <=>
              (storage \in {"LocalFileStorage", "None"})
        /\ ret.op = "health" => ret.val = health

\* health answered on a process that holds the AWS handle
C16_Witness ==
    /\ pc = "serving"
    /\ storage = "AWSS3Storage"
    /\ ret.op = "health"
    /\ ret.val.storage_type = "AWS S3 Storage"
    /\ ret.val.storage_configured

StorageRoutes == {"upload_file", "gallery", "delete_file"}

\* the response the route gives when its storage call raised
ErrorResponse(r) ==
    CASE r.op = "upload_file" ->
            r.val.code = 302 /\ r.val.to = "index" /\ r.val.flash = "Upload failed"
      [] r.op = "gallery" ->
            /\ r.val.code = 200 /\ r.val.to = "gallery.html"
            /\ r.val.images = <<>> /\ r.val.flash = "Error loading gallery"
      [] r.op = "delete_file" ->
            r.val.code = 500 /\ r.val.to = "json" /\ r.val.flash = "error"

\* C17: in the upload, gallery and delete handlers the storage operation is
\* invoked at most once per request (no retry: at most one upload's effect),
\* a raise becomes the route's error response instead of propagating, and the
\* process goes on serving with the same handle.
C17_FailuresContained ==
    [][(pc = "serving" /\ ret'.op \in StorageRoutes) =>
          /\ ret'.exc = "none"
          /\ ret'.pre.calls <= 1
          /\ clock' <= clock + 1
          /\ ret'.pre.raised => ErrorResponse(ret')
          /\ ~ret'.pre.raised => ~ErrorResponse(ret')
          /\ pc' = "serving"
          /\ storage' = storage]_vars

\* an upload whose storage call raised was answered with the flash message
C17_Witness ==
    /\ pc = "serving"
    /\ ret.op = "upload_file"
    /\ ret.pre.raised
    /\ ret.val.flash = "Upload failed"
    /\ storage # "None"

AwsSteps == {"aws_init", "aws_create", "aws_failed"}
AzureSteps == {"azure_init", "azure_create", "azure_failed"}

\* the backends the boot has not touched
AwsUntouched ==
    /\ pc \notin AwsSteps
    /\ "aws" \notin failed
    /\ storage # "AWSS3Storage"
    /\ bucket = NoBucket
AzureUntouched ==
    /\ pc \notin AzureSteps
    /\ "azure" \notin failed
    /\ storage # "AzureBlobStorage"
    /\ container = NoContainer

\* C19: the boot attempts at most one cloud backend: with STORAGE_TYPE=aws a
\* failed AWS initialisation goes directly to local and Azure is never
\* constructed or contacted; with azure, AWS is never attempted; with local
\* no cloud backend is attempted.
C19_OneCloudBackend ==
    [][/\ env = "aws" => AzureUntouched'
       /\ env = "azure" => AwsUntouched'
       /\ env = "local" => (AwsUntouched' /\ AzureUntouched')
       /\ pc = "aws_failed" => pc' = "local_init"
       /\ pc = "azure_failed" => pc' = "local_init"]_vars

\* the AWS initialisation failed and the process serves from the local
\* directory, Azure never contacted
C19_Witness ==
    /\ env = "aws"
    /\ "aws" \in failed
    /\ pc = "serving"
    /\ storage = "LocalFileStorage"
    /\ container = NoContainer

\* ------------------------------------------- operations on different names
\* an upload or a delete a caller can issue on name n
OpsOn(n) ==
    [kind : {"upload"}, name : {n}, stream : PayloadStreams]
        \cup [kind : {"delete"}, name : {n}, stream : {TestStream}]

\* the directory, the files and the clock after the call o, with what it returned
Apply(st, o) ==
    IF o.kind = "upload"
    THEN [dir |-> TRUE,
          fs |-> files_after_upload(st.fs, o.name, o.stream, st.t),
          t |-> st.t + 1,
          val |-> get_file_url(o.name)]
    ELSE [dir |-> st.dir,
          fs |-> files_after_delete(st.fs, o.name),
          t |-> st.t,
          val |-> path_exists(st.fs, o.name)]

\* the stored (name, bytes) pairs
StoredPairs(fs) == {<<n, fs[n].data>> : n \in DOMAIN fs}

\* C18: for names n1 # n2, an upload or delete on n1 and an upload or delete
\* on n2 give the same return values and the same stored (name, bytes) pairs
\* in either order, and the call on n1 leaves the existence and the bytes of
\* n2 as they were.
C18_DifferentNamesCommute ==
    \A n1, n2 \in TwoNames : n1 # n2 =>
        \A o1 \in OpsOn(n1), o2 \in OpsOn(n2) :
            LET st == [dir |-> dirExists, fs |-> files, t |-> clock]
                a1 == Apply(st, o1)
                a12 == Apply(a1, o2)
                b2 == Apply(st, o2)
                b21 == Apply(b2, o1)
            IN /\ StoredPairs(a12.fs) = StoredPairs(b21.fs)
               /\ a12.dir = b21.dir
               /\ a1.val = b21.val
               /\ a12.val = b2.val
               /\ path_exists(a1.fs, n2) = path_exists(files, n2)
               /\ path_exists(files, n2) => a1.fs[n2].data = files[n2].data

\* both names were worked on: one is stored, the other was deleted again
C18_Witness ==
    /\ expect["a.png"].last = "upload"
    /\ expect["b.jpg"].last = "delete"
    /\ path_exists(files, "a.png")
    /\ ~path_exists(files, "b.jpg")
    /\ ret.op = "delete_file"
    /\ ret.val = TRUE

\* ------------------------------------------------ content type in listings
\* the content type upload_file infers from the filename
InferredType(filename) ==
    IF guess_type(filename) = "None" THEN "application/octet-stream"
    ELSE guess_type(filename)

\* C21: on every backend the content type in a stored object's list() entry
\* is the content type inferred from its filename at upload
\* (application/octet-stream when the extension is unmapped).
C21_ListedContentType ==
    /\ \A listing \in Listings :
          \A i \in DOMAIN listing :
              listing[i].content_type = InferredType(listing[i].name)
    /\ \A i \in DOMAIN azure_list_files(container) :
          azure_list_files(container)[i].content_type =
              InferredType(azure_list_files(container)[i].name)
    /\ \A i \in DOMAIN aws_list_files(bucket) :
          aws_list_files(bucket)[i].content_type =
              InferredType(aws_list_files(bucket)[i].name)

\* ------------------------------------------------------- failed uploads
\* C23: if local upload_file(stream, n) raises, an object previously stored
\* under n is still stored with its previous bytes, and no other object is
\* changed.
C23_FailedUploadKeepsObject ==
    (ret.op = "upload_file" /\ ret.exc # "none" /\ ret.pre.last = "upload") =>
        /\ path_exists(files, ret.name)
        /\ files[ret.name].data = ret.pre.data
        /\ OthersUntouched(ret.name)

\* --------------------------------------------------- raw-file serving
CloudHandles == {"AWSS3Storage", "AzureBlobStorage"}

\* C24: the raw-file endpoint serves bytes from the local directory exactly
\* when the active backend is local (also after a fallback), and otherwise
\* redirects to the handle's get_file_url(filename); in every state after the
\* boot in which it takes the redirect branch the handle is a present cloud
\* backend.
C24_ServeOrRedirect ==
    pc = "serving" =>
        /\ STORAGE_TYPE # "local" => storage \in CloudHandles
        /\ ret.op = "serve_uploaded_file" =>
              /\ ret.exc = "none"
              /\ IF STORAGE_TYPE = "local"
                 THEN ret.val.code \in {200, 404}
                 ELSE /\ ret.val.code = 302
                      /\ ret.val.to = IF storage = "AWSS3Storage"
                                      THEN aws_get_file_url(ret.name)
                                      ELSE azure_get_file_url(ret.name)

ExpectedCalls(existed, fault) ==
    IF fault = "head_bucket" \/ existed THEN <<"head_bucket">>
    ELSE IF fault = "create_bucket" THEN <<"head_bucket", "create_bucket">>
    ELSE IF fault = "put_bucket_policy"
         THEN <<"head_bucket", "create_bucket", "put_bucket_policy">>
    ELSE <<"head_bucket", "create_bucket", "put_bucket_policy",
           "put_public_access_block">>

\* C26: AWS create_container issues head_bucket and, when the bucket is
\* there, nothing else and returns True; when head_bucket answers 404 it
\* issues create_bucket, put_bucket_policy (Allow s3:GetObject to * on
\* arn:aws:s3:::<bucket>/*) and put_public_access_block (True, True, False,
\* False) in this order and returns True; a failing call is re-raised and is
\* the last call issued.
C26_CreateStepOrder ==
    (ret.op = "create_container" /\ ret.name = "aws") =>
        LET calls == ret.pre.calls
            failedCall == ret.pre.fault # "none"
                          /\ ret.pre.fault = calls[Len(calls)].call
        IN /\ [i \in 1..Len(calls) |-> calls[i].call]
                = ExpectedCalls(ret.pre.existed, ret.pre.fault)
           /\ \A i \in 1..Len(calls) :
                /\ calls[i].Bucket = bucket_name
                /\ calls[i].call = "put_bucket_policy" =>
                      /\ calls[i].arg.Effect = "Allow"
                      /\ calls[i].arg.Action = "s3:GetObject"
                      /\ calls[i].arg.Principal = "*"
                      /\ calls[i].arg.Resource = "arn:aws:s3:::photos/*"
                /\ calls[i].call = "put_public_access_block" =>
                      calls[i].arg = [BlockPublicAcls |-> TRUE,
                                      IgnorePublicAcls |-> TRUE,
                                      BlockPublicPolicy |-> FALSE,
                                      RestrictPublicBuckets |-> FALSE]
           /\ (ret.exc = "none") = ~failedCall
           /\ ret.exc = "none" => ret.val = TRUE

\* the bucket was missing and all four calls went out, in order
C26_Witness ==
    /\ ret.op = "create_container"
    /\ ret.name = "aws"
    /\ ret.exc = "none"
    /\ ~ret.pre.existed
    /\ Len(ret.pre.calls) = 4
    /\ ret.pre.calls[3].call = "put_bucket_policy"

\* C27: whenever AWS create_container has returned True, whatever calls
\* came before it (failed ones included), the bucket carries the public-read
\* policy and the public-access-block configuration.
C27_ReadyMeansPublic ==
    (ret.op = "create_container" /\ ret.name = "aws" /\ ret.exc = "none") =>
        /\ bucket.exists
        /\ bucket.policy
        /\ bucket.block

\* ------------------------------------------------- the delete endpoint
\* C30: the delete endpoint answers {success: true} whenever a handle is
\* present and storage.delete_file did not raise, also when there was no
\* such object, and HTTP 500 with an error body exactly when the handle is
\* absent or delete_file raised.
C30_DeleteResponse ==
    (pc = "serving" /\ ret.op = "delete_file") =>
        LET called == ret.pre.calls = 1
        IN /\ ret.exc = "none"
           /\ called <=> storage # "None"
           /\ ret.val.code \in {200, 500}
           /\ (ret.val.code = 200 /\ ret.val.flash = "File deleted")
                 <=> (called /\ ~ret.pre.raised)
           /\ ret.val.code = 500 <=> (~called \/ ret.pre.raised)
           /\ ~called => ret.val.flash = "Storage service not configured"

\* success answered for a name that was never stored
C30_Witness ==
    /\ pc = "serving"
    /\ storage = "LocalFileStorage"
    /\ ret.op = "delete_file"
    /\ ret.val.code = 200
    /\ files = NoFiles
    /\ clock = 0

\* --------------------------------------------- calls that run concurrently
\* the calls of the two threads that were in flight together
BothDone(op) ==
    \A t \in ThreadIds :
        /\ threads[t].at = "done"
        /\ threads[t].op = op
        /\ threads[t].name = "a.png"

\* C22: when two local upload_file calls for the same name with contents b1
\* and b2 run concurrently, then once both have returned the file holds
\* exactly b1 or exactly b2, never a mixture.
C22_LastWriterWins ==
    BothDone("upload_file") =>
        /\ \A t \in ThreadIds : threads[t].exc = "none"
        /\ path_exists(files, "a.png")
        /\ download_file(files, "a.png").val \in {threads[t].stream : t \in ThreadIds}

\* C28: when two local delete_file calls of the same stored name interleave,
\* exactly one returns True, the other returns False, and neither raises.
C28_ConcurrentDeletes ==
    (BothDone("delete_file") /\ \E t \in ThreadIds : threads[t].existed) =>
        /\ \A t \in ThreadIds : threads[t].exc = "none"
        /\ \E t \in ThreadIds :
              /\ threads[t].val = TRUE
              /\ \A u \in ThreadIds \ {t} : threads[u].val = FALSE

\* C29: a local list_files() that runs concurrently with delete_file never
\* raises; it returns a listing of the files that remain.
C29_ListNeverRaises ==
    \A t \in ThreadIds :
        (threads[t].op = "list_files" /\ threads[t].at = "done") =>
            /\ threads[t].exc = "none"
            /\ \A i \in 1..Len(threads[t].val) : threads[t].val[i].name \in Names

====
